---------------------------- MODULE Spec2Model ----------------------------
(***************************************************************************)
(* Fantacalcio auction ledger (src/app.py): teams, rosters per role, the   *)
(* purchase log, team renaming and the dynamic per-role spending targets.  *)
(*                                                                         *)
(* A Python string is modelled as a sequence of chunks: a chunk is either  *)
(* the whitespace chunk " " or a run of non-whitespace characters, so      *)
(* "Squadra 2" is <<"Squadra", " ", "2">> and " Smith" is <<" ", "Smith">>. *)
(* str.strip() removes the leading and trailing whitespace chunks.         *)
(***************************************************************************)
EXTENDS Integers, Sequences, FiniteSets, TLC

VARIABLES
    squadre,     \* st.session_state.squadre: the teams, in order
    storico,     \* st.session_state.storico_acquisti: the purchase log
    lega_state,  \* the content of lega_state.json, as save_state last wrote it
    esito,       \* what the last operation reported: "ok", "ko" ("boot" at start)
    in_corso     \* per caller, the call of aggiungi_giocatore that has passed
                 \* its checks and not yet appended (none: <<>>)

vars == <<squadre, storico, lega_state, esito, in_corso>>

-----------------------------------------------------------------------------
(* Settings fixed by the code *)

RUOLI == <<"P", "D", "C", "A">>

RuoliSet == {RUOLI[k] : k \in 1..Len(RUOLI)}

\* quotas per role, scaled down from {"P": 3, "D": 8, "C": 8, "A": 6}
QuotaP == 1
QuotaD == 1
QuotaC == 1
QuotaA == 2

QUOTE_ROSA == [P |-> QuotaP, D |-> QuotaD, C |-> QuotaC, A |-> QuotaA]

\* SETTINGS["num_squadre"], scaled down from 10
NumSquadre == 2

\* SETTINGS["crediti"]
Crediti == 700

\* SETTINGS["no_doppioni"]
NoDoppioni == TRUE

\* SETTINGS["spending_targets"], in hundredths
SpendingTargets == [P |-> 10, D |-> 20, C |-> 30, A |-> 40]

\* the purchase log is unbounded in the code; runs are cut at this length
MaxStorico == 2

\* callers that may be inside aggiungi_giocatore at the same time
NumChiamanti == 2

Chiamanti == 1..NumChiamanti

-----------------------------------------------------------------------------
(* Strings *)

Spazio == " "

RECURSIVE LStrip(_)
LStrip(s) == IF s # <<>> /\ Head(s) = Spazio THEN LStrip(Tail(s)) ELSE s

RECURSIVE RStrip(_)
RStrip(s) ==
    IF s # <<>> /\ s[Len(s)] = Spazio THEN RStrip(SubSeq(s, 1, Len(s) - 1)) ELSE s

\* str.strip()
Strip(s) == RStrip(LStrip(s))

\* the default team names of _init_default_squadre
NomeDefault(i) ==
    IF i = 1 THEN <<"Terzetto", Spazio, "Scherzetto">>
             ELSE <<"Squadra", Spazio, ToString(i)>>

-----------------------------------------------------------------------------
(* Data model *)

Giocatore(nome, ruolo, prezzo) == [nome |-> nome, ruolo |-> ruolo, prezzo |-> prezzo]

RosaVuota == [r \in RuoliSet |-> <<>>]

Squadra(nome, budget) == [nome |-> nome, budget |-> budget, rosa |-> RosaVuota]

\* Squadra.to_dict
Squadra_to_dict(s) ==
    [nome |-> s.nome,
     budget |-> s.budget,
     rosa |-> [r \in RuoliSet |->
                 [k \in 1..Len(s.rosa[r]) |->
                    [nome |-> s.rosa[r][k].nome,
                     ruolo |-> s.rosa[r][k].ruolo,
                     prezzo |-> s.rosa[r][k].prezzo]]]]

\* the payload save_state writes to lega_state.json
Payload(sq, st) ==
    [squadre |-> [k \in 1..Len(sq) |-> Squadra_to_dict(sq[k])],
     storico |-> st]

Teams == 1..NumSquadre

\* dict.get(k, default)
Get(d, k, default) == IF k \in DOMAIN d THEN d[k] ELSE default

\* Squadra.from_dict that leaves the roster at its default
Squadra_from_dict_senza_rosa(d) == Squadra(d["nome"], d["budget"])

\* Squadra.from_dict
Squadra_from_dict(d) ==
    [Squadra(d["nome"], d["budget"]) EXCEPT !.rosa =
        [r \in RuoliSet |->
            LET elenco == Get(Get(d, "rosa", <<>>), r, <<>>)
            IN  [k \in 1..Len(elenco) |->
                    Giocatore(elenco[k].nome, elenco[k].ruolo, elenco[k].prezzo)]]]

\* what load_state puts in the session from the content of lega_state.json
load_state(data) ==
    LET ds == Get(data, "squadre", <<>>)
    IN  [squadre |-> [k \in 1..Len(ds) |-> Squadra_from_dict(ds[k])],
         storico |-> Get(data, "storico", <<>>)]

-----------------------------------------------------------------------------
(* League functions *)

RECURSIVE SommaPrezzi(_)
SommaPrezzi(elenco) ==
    IF elenco = <<>> THEN 0 ELSE Head(elenco).prezzo + SommaPrezzi(Tail(elenco))

quote_rimaste(team) == [r \in RuoliSet |-> QUOTE_ROSA[r] - Len(team.rosa[r])]

rosa_completa(team) == \A r \in RuoliSet : Len(team.rosa[r]) >= QUOTE_ROSA[r]

spesa_per_ruolo(team) == [r \in RuoliSet |-> SommaPrezzi(team.rosa[r])]

crediti_rimasti(team) ==
    team.budget - (spesa_per_ruolo(team)["P"] + spesa_per_ruolo(team)["D"]
                   + spesa_per_ruolo(team)["C"] + spesa_per_ruolo(team)["A"])

\* the names of all rostered players, league-wide (a list in the code; only
\* membership is ever asked of it)
elenco_giocatori_global ==
    UNION {{squadre[i].rosa[r][k].nome : k \in 1..Len(squadre[i].rosa[r])} :
              <<i, r>> \in Teams \X RuoliSet}

\* aggiungi_giocatore without the check of the remaining credits
ControlloSenzaCrediti(team, nome, ruolo, prezzo) ==
    IF Strip(nome) = <<>> \/ ruolo \notin RuoliSet \/ prezzo < 0
        THEN "InvalidInput"
    ELSE IF NoDoppioni /\ nome \in elenco_giocatori_global
        THEN "DuplicatePlayer"
    ELSE IF quote_rimaste(team)[ruolo] <= 0
        THEN "QuotaExceeded"
    ELSE "Acquired"

\* aggiungi_giocatore refusing only below a remaining quota of 0
ControlloQuotaLarga(team, nome, ruolo, prezzo) ==
    IF Strip(nome) = <<>> \/ ruolo \notin RuoliSet \/ prezzo < 0
        THEN "InvalidInput"
    ELSE IF NoDoppioni /\ nome \in elenco_giocatori_global
        THEN "DuplicatePlayer"
    ELSE IF quote_rimaste(team)[ruolo] < 0
        THEN "QuotaExceeded"
    ELSE IF crediti_rimasti(team) < prezzo
        THEN "InsufficientCredits"
    ELSE "Acquired"

\* aggiungi_giocatore checking the credits before the quota
ControlloCreditiPrima(team, nome, ruolo, prezzo) ==
    IF Strip(nome) = <<>> \/ ruolo \notin RuoliSet \/ prezzo < 0
        THEN "InvalidInput"
    ELSE IF NoDoppioni /\ nome \in elenco_giocatori_global
        THEN "DuplicatePlayer"
    ELSE IF crediti_rimasti(team) < prezzo
        THEN "InsufficientCredits"
    ELSE IF quote_rimaste(team)[ruolo] <= 0
        THEN "QuotaExceeded"
    ELSE "Acquired"

\* aggiungi_giocatore refusing a price that takes the spend on the role
\* above the role's fraction of the budget
ControlloConTarget(team, nome, ruolo, prezzo) ==
    IF Strip(nome) = <<>> \/ ruolo \notin RuoliSet \/ prezzo < 0
        THEN "InvalidInput"
    ELSE IF NoDoppioni /\ nome \in elenco_giocatori_global
        THEN "DuplicatePlayer"
    ELSE IF quote_rimaste(team)[ruolo] <= 0
        THEN "QuotaExceeded"
    ELSE IF crediti_rimasti(team) < prezzo
        THEN "InsufficientCredits"
    ELSE IF (spesa_per_ruolo(team)[ruolo] + prezzo) * 100 > team.budget * SpendingTargets[ruolo]
        THEN "OverTarget"
    ELSE "Acquired"

\* aggiungi_giocatore looking for the name in the purchase log as well as
\* in the rosters
ControlloSulloStorico(team, nome, ruolo, prezzo) ==
    IF Strip(nome) = <<>> \/ ruolo \notin RuoliSet \/ prezzo < 0
        THEN "InvalidInput"
    ELSE IF NoDoppioni /\ (\/ nome \in elenco_giocatori_global
                           \/ \E k \in 1..Len(storico) : storico[k].giocatore = nome)
        THEN "DuplicatePlayer"
    ELSE IF quote_rimaste(team)[ruolo] <= 0
        THEN "QuotaExceeded"
    ELSE IF crediti_rimasti(team) < prezzo
        THEN "InsufficientCredits"
    ELSE "Acquired"

\* aggiungi_giocatore refusing a price of 0
ControlloPrezzoPositivo(team, nome, ruolo, prezzo) ==
    IF Strip(nome) = <<>> \/ ruolo \notin RuoliSet \/ prezzo <= 0
        THEN "InvalidInput"
    ELSE IF NoDoppioni /\ nome \in elenco_giocatori_global
        THEN "DuplicatePlayer"
    ELSE IF quote_rimaste(team)[ruolo] <= 0
        THEN "QuotaExceeded"
    ELSE IF crediti_rimasti(team) < prezzo
        THEN "InsufficientCredits"
    ELSE "Acquired"

\* the checks of aggiungi_giocatore, in the order of the code; the name of
\* the first check that fails, or "Acquired" when none does
Controllo(team, nome, ruolo, prezzo) ==
    IF Strip(nome) = <<>> \/ ruolo \notin RuoliSet \/ prezzo < 0
        THEN "InvalidInput"
    ELSE IF NoDoppioni /\ nome \in elenco_giocatori_global
        THEN "DuplicatePlayer"
    ELSE IF quote_rimaste(team)[ruolo] <= 0
        THEN "QuotaExceeded"
    ELSE IF crediti_rimasti(team) < prezzo
        THEN "InsufficientCredits"
    ELSE "Acquired"

\* index of the first entry of elenco named giocatore_nome, 0 when none
PrimoIndice(elenco, giocatore_nome) ==
    IF \E k \in 1..Len(elenco) : elenco[k].nome = giocatore_nome
        THEN CHOOSE k \in 1..Len(elenco) :
                /\ elenco[k].nome = giocatore_nome
                /\ \A j \in 1..(k - 1) : elenco[j].nome # giocatore_nome
        ELSE 0

\* list.pop(i)
Pop(elenco, i) == SubSeq(elenco, 1, i - 1) \o SubSeq(elenco, i + 1, Len(elenco))

-----------------------------------------------------------------------------
(* Spending targets *)

\* sum of a per-role mapping
SommaRuoli(f) == f["P"] + f["D"] + f["C"] + f["A"]

\* round(n / d) of Python 3 for n >= 0, d > 0: to nearest, a tie to even
RoundHalfEven(n, d) ==
    LET q == n \div d
        r == n % d
    IN  IF 2 * r < d THEN q
        ELSE IF 2 * r > d THEN q + 1
        ELSE IF q % 2 = 0 THEN q ELSE q + 1

\* the static targets taken on the credits left instead of the budget
target_su_crediti_rimasti(team) ==
    [r \in RuoliSet |-> RoundHalfEven(crediti_rimasti(team) * SpendingTargets[r], 100)]

target_per_ruolo(team) ==
    [r \in RuoliSet |-> RoundHalfEven(team.budget * SpendingTargets[r], 100)]

\* The weights are floats.  perc[r] / total_w is the nearest double to the
\* exact ratio, and pool * weight lands on the exact product except for
\* the weight of C among P, C, A: 0.3 / 0.8 is 0.37499999999999994, so a
\* product that is exactly half-way (pool = 4 mod 8) falls just below the
\* half and is rounded down.
PesoSottoStimato(remaining_roles, r) == remaining_roles = <<"P", "C", "A">> /\ r = "C"

\* int(round(remaining_pool * weights[r]))
TargetPesato(remaining_pool, remaining_roles, r) ==
    LET total_w == SommaRuoli([x \in RuoliSet |->
                       IF \E k \in 1..Len(remaining_roles) : remaining_roles[k] = x
                         THEN SpendingTargets[x] ELSE 0])
        num == IF total_w <= 0 THEN remaining_pool ELSE remaining_pool * SpendingTargets[r]
        den == IF total_w <= 0 THEN Len(remaining_roles) ELSE total_w
    IN  IF 2 * (num % den) = den /\ PesoSottoStimato(remaining_roles, r)
          THEN num \div den
          ELSE RoundHalfEven(num, den)

Max(a, b) == IF a >= b THEN a ELSE b

\* complete roles locked at their spend, open roles left at the static target
target_senza_redistribuzione(team) ==
    [r \in RuoliSet |->
        IF Len(team.rosa[r]) >= QUOTE_ROSA[r]
          THEN spesa_per_ruolo(team)[r]
          ELSE target_per_ruolo(team)[r]]

\* the roles of the team at their quota, and the others, in the order of RUOLI
completed(team) ==
    LET IsCompleted(r) == Len(team.rosa[r]) >= QUOTE_ROSA[r]
    IN  SelectSeq(RUOLI, IsCompleted)

remaining_roles(team) ==
    LET IsRemaining(r) == Len(team.rosa[r]) < QUOTE_ROSA[r]
    IN  SelectSeq(RUOLI, IsRemaining)

\* team.budget - sum(t.values()) over the locked roles, before it is
\* clamped at 0
remaining_pool_grezzo(team) ==
    LET rem == remaining_roles(team)
        spent == spesa_per_ruolo(team)
    IN  team.budget
          - SommaRuoli([r \in RuoliSet |->
                IF \E k \in 1..Len(rem) : rem[k] = r THEN 0 ELSE spent[r]])

\* the targets with every open role at its rounded share, the last too
target_tutti_arrotondati(team) ==
    LET spent == spesa_per_ruolo(team)
        rem == remaining_roles(team)
        remaining_pool == Max(0, remaining_pool_grezzo(team))
    IN  [r \in RuoliSet |->
            IF Len(team.rosa[r]) >= QUOTE_ROSA[r] THEN spent[r]
            ELSE TargetPesato(remaining_pool, rem, r)]

\* t as it stands before the final correction: complete roles at their
\* spend, open roles at their share of the pool, the last open role at
\* what is left of the pool
target_prima_della_correzione(team) ==
    LET spent == spesa_per_ruolo(team)
        rem == remaining_roles(team)
        n == Len(rem)
        remaining_pool == Max(0, remaining_pool_grezzo(team))
        acc == SommaRuoli([r \in RuoliSet |->
                   IF \E k \in 1..(n - 1) : rem[k] = r
                     THEN TargetPesato(remaining_pool, rem, r) ELSE 0])
    IN  [r \in RuoliSet |->
            IF Len(team.rosa[r]) >= QUOTE_ROSA[r] THEN spent[r]
            ELSE IF r = rem[n] THEN remaining_pool - acc
            ELSE TargetPesato(remaining_pool, rem, r)]

\* int(team.budget - sum(t.values())) of the final correction
diff(team) == team.budget - SommaRuoli(target_prima_della_correzione(team))

\* the dynamic targets falling back to the static ones in every case
target_sempre_statico(team) == target_per_ruolo(team)

target_per_ruolo_dynamic(team) ==
    LET spent == spesa_per_ruolo(team)
        t == target_prima_della_correzione(team)
    IN  IF completed(team) = <<>> THEN target_per_ruolo(team)
        ELSE IF remaining_roles(team) = <<>> THEN [r \in RuoliSet |-> spent[r]]
        ELSE IF diff(team) # 0
               THEN [t EXCEPT ![remaining_roles(team)[1]] = Max(0, @ + diff(team))]
               ELSE t

-----------------------------------------------------------------------------
(* Operations.  esito is what the caller is told: "ok" or "ko" for the     *)
(* boolean the ledger functions return, and for a rename "ok" for          *)
(* st.success, "ko" for st.warning (a rename that does nothing reports     *)
(* nothing).  The operations below run from call to return in one step and *)
(* leave in_corso alone.                                                   *)

Init ==
    /\ squadre = [i \in Teams |-> Squadra(NomeDefault(i), Crediti)]
    /\ storico = <<>>
    /\ lega_state = Payload(squadre, storico)
    /\ esito = "boot"
    /\ in_corso = [c \in Chiamanti |-> <<>>]

\* aggiungi_giocatore appending to the roster before the check of the credits
AggiungiGiocatoreParziale(i, nome, ruolo, prezzo) ==
    LET team == squadre[i]
        e == Controllo(team, nome, ruolo, prezzo)
        aggiunto == [squadre EXCEPT ![i].rosa[ruolo] =
                        Append(@, Giocatore(Strip(nome), ruolo, prezzo))]
    IN  IF e = "Acquired"
          THEN /\ squadre' = aggiunto
               /\ storico' = Append(storico,
                                 [squadra |-> team.nome,
                                  giocatore |-> Strip(nome),
                                  ruolo |-> ruolo,
                                  prezzo |-> prezzo])
               /\ lega_state' = Payload(squadre', storico')
               /\ esito' = "ok"
          ELSE /\ esito' = "ko"
               /\ squadre' = IF e = "InsufficientCredits" THEN aggiunto ELSE squadre
               /\ UNCHANGED <<storico, lega_state>>

\* aggiungi_giocatore storing the name as typed
AggiungiGiocatoreNomeGrezzo(i, nome, ruolo, prezzo) ==
    LET team == squadre[i]
    IN  IF Controllo(team, nome, ruolo, prezzo) = "Acquired"
          THEN /\ squadre' = [squadre EXCEPT ![i].rosa[ruolo] =
                                 Append(@, Giocatore(nome, ruolo, prezzo))]
               /\ storico' = Append(storico,
                                 [squadra |-> team.nome,
                                  giocatore |-> Strip(nome),
                                  ruolo |-> ruolo,
                                  prezzo |-> prezzo])
               /\ lega_state' = Payload(squadre', storico')
               /\ esito' = "ok"
          ELSE /\ esito' = "ko"
               /\ UNCHANGED <<squadre, storico, lega_state>>

AggiungiGiocatore(i, nome, ruolo, prezzo) ==
    LET team == squadre[i]
    IN  IF Controllo(team, nome, ruolo, prezzo) = "Acquired"
          THEN /\ squadre' = [squadre EXCEPT ![i].rosa[ruolo] =
                                 Append(@, Giocatore(Strip(nome), ruolo, prezzo))]
               /\ storico' = Append(storico,
                                 [squadra |-> team.nome,
                                  giocatore |-> Strip(nome),
                                  ruolo |-> ruolo,
                                  prezzo |-> prezzo])
               /\ lega_state' = Payload(squadre', storico')
               /\ esito' = "ok"
          ELSE /\ esito' = "ko"
               /\ UNCHANGED <<squadre, storico, lega_state>>

\* a removal that, not finding the name in the role, takes it from another
\* role of the team
RimuoviGiocatoreOvunque(i, ruolo, giocatore_nome) ==
    LET elenco == squadre[i].rosa[ruolo]
        k == PrimoIndice(elenco, giocatore_nome)
        altri == {r \in RuoliSet : PrimoIndice(squadre[i].rosa[r], giocatore_nome) > 0}
        altro == CHOOSE r \in altri : TRUE
    IN  IF k > 0
          THEN /\ squadre' = [squadre EXCEPT ![i].rosa[ruolo] = Pop(elenco, k)]
               /\ lega_state' = Payload(squadre', storico)
               /\ esito' = "ok"
               /\ UNCHANGED storico
          ELSE IF altri # {}
            THEN /\ squadre' = [squadre EXCEPT ![i].rosa[altro] =
                                   Pop(@, PrimoIndice(@, giocatore_nome))]
                 /\ lega_state' = Payload(squadre', storico)
                 /\ esito' = "ok"
                 /\ UNCHANGED storico
            ELSE /\ esito' = "ko"
                 /\ UNCHANGED <<squadre, storico, lega_state>>

\* a removal that takes the last entry of the name instead of the first
RimuoviGiocatoreUltimo(i, ruolo, giocatore_nome) ==
    LET elenco == squadre[i].rosa[ruolo]
        trovati == {k \in 1..Len(elenco) : elenco[k].nome = giocatore_nome}
        ultimo == CHOOSE k \in trovati : \A j \in trovati : j <= k
    IN  IF trovati # {}
          THEN /\ squadre' = [squadre EXCEPT ![i].rosa[ruolo] = Pop(elenco, ultimo)]
               /\ lega_state' = Payload(squadre', storico)
               /\ esito' = "ok"
               /\ UNCHANGED storico
          ELSE /\ esito' = "ko"
               /\ UNCHANGED <<squadre, storico, lega_state>>

RimuoviGiocatore(i, ruolo, giocatore_nome) ==
    LET elenco == squadre[i].rosa[ruolo]
        k == PrimoIndice(elenco, giocatore_nome)
    IN  IF k > 0
          THEN /\ squadre' = [squadre EXCEPT ![i].rosa[ruolo] = Pop(elenco, k)]
               /\ lega_state' = Payload(squadre', storico)
               /\ esito' = "ok"
               /\ UNCHANGED storico
          ELSE /\ esito' = "ko"
               /\ UNCHANGED <<squadre, storico, lega_state>>

\* a rename that also rewrites the team's name in the records of the log
RinominaSquadraEStorico(i, nuovo_nome) ==
    LET team == squadre[i]
        altri_nomi == {squadre[j].nome : j \in Teams \ {i}}
    IN  IF Strip(nuovo_nome) # <<>> /\ nuovo_nome # team.nome
          THEN IF nuovo_nome \in altri_nomi
                 THEN /\ esito' = "ko"
                      /\ UNCHANGED <<squadre, storico, lega_state>>
                 ELSE /\ squadre' = [squadre EXCEPT ![i].nome = nuovo_nome]
                      /\ storico' = [k \in 1..Len(storico) |->
                                       IF storico[k].squadra = team.nome
                                         THEN [storico[k] EXCEPT !.squadra = nuovo_nome]
                                         ELSE storico[k]]
                      /\ lega_state' = Payload(squadre', storico')
                      /\ esito' = "ok"
          ELSE UNCHANGED vars

\* a rename that does not strip the new name before testing it for empty
RinominaSquadraSenzaStrip(i, nuovo_nome) ==
    LET team == squadre[i]
        altri_nomi == {squadre[j].nome : j \in Teams \ {i}}
    IN  IF nuovo_nome # <<>> /\ nuovo_nome # team.nome
          THEN IF nuovo_nome \in altri_nomi
                 THEN /\ esito' = "ko"
                      /\ UNCHANGED <<squadre, storico, lega_state>>
                 ELSE /\ squadre' = [squadre EXCEPT ![i].nome = nuovo_nome]
                      /\ lega_state' = Payload(squadre', storico)
                      /\ esito' = "ok"
                      /\ UNCHANGED storico
          ELSE UNCHANGED vars

\* a rename that does not look at the names of the other teams
RinominaSquadraSenzaConflitto(i, nuovo_nome) ==
    LET team == squadre[i]
    IN  IF Strip(nuovo_nome) # <<>> /\ nuovo_nome # team.nome
          THEN /\ squadre' = [squadre EXCEPT ![i].nome = nuovo_nome]
               /\ lega_state' = Payload(squadre', storico)
               /\ esito' = "ok"
               /\ UNCHANGED storico
          ELSE UNCHANGED vars

\* the body of the tab_nomi loop for team i and the text typed for it
RinominaSquadra(i, nuovo_nome) ==
    LET team == squadre[i]
        altri_nomi == {squadre[j].nome : j \in Teams \ {i}}
    IN  IF Strip(nuovo_nome) # <<>> /\ nuovo_nome # team.nome
          THEN IF nuovo_nome \in altri_nomi
                 THEN /\ esito' = "ko"
                      /\ UNCHANGED <<squadre, storico, lega_state>>
                 ELSE /\ squadre' = [squadre EXCEPT ![i].nome = nuovo_nome]
                      /\ lega_state' = Payload(squadre', storico)
                      /\ esito' = "ok"
                      /\ UNCHANGED storico
          ELSE UNCHANGED vars

-----------------------------------------------------------------------------
(* Inputs of the manual tabs: free text, any role, any price *)

Smith == <<"Smith">>
Jones == <<"Jones">>

NomiInput == {<<>>, <<Spazio>>, Smith, <<Spazio>> \o Smith, Jones}

RuoliInput == RuoliSet \cup {"X"}

PrezziInput == {-1, 0, 700}

Nuovo == <<"Nuovo">>

NomiSquadraInput == {<<>>, <<Spazio>>, Nuovo}

\* the text box of a team holds a fixed text or the name of a team
NomiSquadraTyped == NomiSquadraInput \cup {squadre[j].nome : j \in Teams}

\* an acquisition that would be accepted is taken only while the log is
\* shorter than max
EntroStorico(max, i, nome, ruolo, prezzo) ==
    Controllo(squadre[i], nome, ruolo, prezzo) = "Acquired" => Len(storico) < max

Aggiungi ==
    \E i \in Teams, nome \in NomiInput, ruolo \in RuoliInput, prezzo \in PrezziInput :
        /\ EntroStorico(MaxStorico, i, nome, ruolo, prezzo)
        /\ AggiungiGiocatore(i, nome, ruolo, prezzo)
        /\ UNCHANGED in_corso

Rimuovi ==
    \E i \in Teams, ruolo \in RuoliSet, nome \in NomiInput :
        /\ RimuoviGiocatore(i, ruolo, nome)
        /\ UNCHANGED in_corso

Rinomina ==
    \E i \in Teams, nuovo_nome \in NomiSquadraTyped :
        /\ RinominaSquadra(i, nuovo_nome)
        /\ UNCHANGED in_corso

Next == Aggiungi \/ Rimuovi \/ Rinomina

Spec == Init /\ [][Next]_vars

-----------------------------------------------------------------------------
(* The auction tab: the player on the card comes from the sheet of the     *)
(* role in auction, with the name stripped and the players already         *)
(* rostered left out.  The tab has no removal.                             *)

Listone ==
    [P |-> {<<"Portiere">>}, D |-> {<<"Difensore">>},
     C |-> {<<"Centrocampista">>}, A |-> {<<"Attaccante">>, <<"Punta">>}]

\* the prices tried for the players of each role
PrezziAsta ==
    [P |-> {50, 650}, D |-> {8, 650}, C |-> {8, 650}, A |-> {8, 650}]

\* log length at which the auction runs are cut
MaxStoricoAsta == 5

AggiungiAsta ==
    \E i \in Teams, ruolo \in RuoliSet :
        \E nome \in {Strip(x) : x \in Listone[ruolo]} \ elenco_giocatori_global,
           prezzo \in PrezziAsta[ruolo] :
            /\ EntroStorico(MaxStoricoAsta, i, nome, ruolo, prezzo)
            /\ AggiungiGiocatore(i, nome, ruolo, prezzo)
            /\ UNCHANGED in_corso

NextAsta == AggiungiAsta

SpecAsta == Init /\ [][NextAsta]_vars

-----------------------------------------------------------------------------
(* aggiungi_giocatore run by several callers on the same league: the       *)
(* checks (lines 210-217) and the append with the log record and the save  *)
(* (lines 218-226) are separate steps, and no lock is held between them.   *)

\* the checks of aggiungi_giocatore for caller c; a call that passes them
\* goes on to the append
ControllaGiocatore(c, i, nome, ruolo, prezzo) ==
    /\ in_corso[c] = <<>>
    /\ IF Controllo(squadre[i], nome, ruolo, prezzo) = "Acquired"
         THEN /\ in_corso' = [in_corso EXCEPT ![c] =
                                 <<[squadra |-> i, nome |-> nome,
                                    ruolo |-> ruolo, prezzo |-> prezzo]>>]
              /\ UNCHANGED <<squadre, storico, lega_state, esito>>
         ELSE /\ esito' = "ko"
              /\ UNCHANGED <<squadre, storico, lega_state, in_corso>>

\* an append that runs the checks again, as it would holding a lock over
\* both steps
AppendiGiocatoreSottoLock(c) ==
    /\ in_corso[c] # <<>>
    /\ LET ch == in_corso[c][1]
           team == squadre[ch.squadra]
       IN  IF Controllo(team, ch.nome, ch.ruolo, ch.prezzo) = "Acquired"
             THEN /\ squadre' = [squadre EXCEPT ![ch.squadra].rosa[ch.ruolo] =
                                    Append(@, Giocatore(Strip(ch.nome), ch.ruolo, ch.prezzo))]
                  /\ storico' = Append(storico,
                                    [squadra |-> team.nome,
                                     giocatore |-> Strip(ch.nome),
                                     ruolo |-> ch.ruolo,
                                     prezzo |-> ch.prezzo])
                  /\ lega_state' = Payload(squadre', storico')
                  /\ esito' = "ok"
             ELSE /\ esito' = "ko"
                  /\ UNCHANGED <<squadre, storico, lega_state>>
    /\ in_corso' = [in_corso EXCEPT ![c] = <<>>]

\* the append, the log record and the save of the call of caller c
AppendiGiocatore(c) ==
    /\ in_corso[c] # <<>>
    /\ LET ch == in_corso[c][1]
           team == squadre[ch.squadra]
       IN  /\ squadre' = [squadre EXCEPT ![ch.squadra].rosa[ch.ruolo] =
                             Append(@, Giocatore(Strip(ch.nome), ch.ruolo, ch.prezzo))]
           /\ storico' = Append(storico,
                             [squadra |-> team.nome,
                              giocatore |-> Strip(ch.nome),
                              ruolo |-> ch.ruolo,
                              prezzo |-> ch.prezzo])
           /\ lega_state' = Payload(squadre', storico')
           /\ esito' = "ok"
    /\ in_corso' = [in_corso EXCEPT ![c] = <<>>]

NomiConcorrenti == {Smith, Jones}

PrezziConcorrenti == {0, 700}

\* the calls past their checks
Avviate == {c \in Chiamanti : in_corso[c] # <<>>}

\* a call that passes its checks is started only while the log and the
\* calls under way stay within MaxStorico
Controlla ==
    \E c \in Chiamanti, i \in Teams, nome \in NomiConcorrenti,
       ruolo \in RuoliSet, prezzo \in PrezziConcorrenti :
        /\ Controllo(squadre[i], nome, ruolo, prezzo) = "Acquired"
              => Len(storico) + Cardinality(Avviate) < MaxStorico
        /\ ControllaGiocatore(c, i, nome, ruolo, prezzo)

Appendi == \E c \in Chiamanti : AppendiGiocatore(c)

NextConcorrenti == Controlla \/ Appendi

SpecConcorrenti == Init /\ [][NextConcorrenti]_vars

-----------------------------------------------------------------------------
(* The names tab alone, with names typed with blanks around them *)

Altro == <<"Altro">>

\* the text box of a team holds any text: empty, blank, a new name with or
\* without a blank before or after it, a default name with or without a
\* blank before it, or the name a team bears
NomiSquadraLiberi ==
    {<<>>, <<Spazio>>, Nuovo, <<Spazio>> \o Nuovo, Nuovo \o <<Spazio>>, Altro}
        \cup {NomeDefault(j) : j \in Teams}
        \cup {<<Spazio>> \o NomeDefault(j) : j \in Teams}
        \cup {squadre[j].nome : j \in Teams}

RinominaLibera ==
    \E i \in Teams, nuovo_nome \in NomiSquadraLiberi :
        /\ RinominaSquadra(i, nuovo_nome)
        /\ UNCHANGED in_corso

NextNomi == RinominaLibera

SpecNomi == Init /\ [][NextNomi]_vars

-----------------------------------------------------------------------------
(* The auction tab with players going for nothing or for the whole budget  *)

PrezziGratis == {0, 700}

\* log length at which these runs are cut
MaxStoricoGratis == 5

AggiungiGratis ==
    \E i \in Teams, ruolo \in RuoliSet :
        \E nome \in {Strip(x) : x \in Listone[ruolo]} \ elenco_giocatori_global,
           prezzo \in PrezziGratis :
            /\ EntroStorico(MaxStoricoGratis, i, nome, ruolo, prezzo)
            /\ AggiungiGiocatore(i, nome, ruolo, prezzo)
            /\ UNCHANGED in_corso

NextGratis == AggiungiGratis

SpecGratis == Init /\ [][NextGratis]_vars

-----------------------------------------------------------------------------
(* Properties of the ledger, checked under Spec *)

Lega == <<squadre, storico, lega_state>>

\* the (team, role) slots holding a player stored under nome
SlotCon(nome) ==
    {<<i, r>> \in Teams \X RuoliSet :
        \E k \in 1..Len(squadre[i].rosa[r]) : squadre[i].rosa[r][k].nome = nome}

RECURSIVE ContaGiocatori(_, _)
ContaGiocatori(sq, n) ==
    IF n = 0 THEN 0
    ELSE SommaRuoli([r \in RuoliSet |-> Len(sq[n].rosa[r])]) + ContaGiocatori(sq, n - 1)

\* the number of rostered players of the league
NumGiocatori(sq) == ContaGiocatori(sq, Len(sq))

\* C1: for every team the prices of its roster sum to at most its budget,
\* that is, its remaining credits are never negative.
C1_Budget ==
    \A i \in Teams :
        /\ SommaRuoli(spesa_per_ruolo(squadre[i])) <= squadre[i].budget
        /\ crediti_rimasti(squadre[i]) >= 0

\* a team that has spent its whole budget and goes on buying
C1_Witness ==
    \E i \in Teams :
        /\ crediti_rimasti(squadre[i]) = 0
        /\ Len(squadre[i].rosa["P"]) + Len(squadre[i].rosa["D"]) = 2
        /\ esito = "ko"

\* C2: no role of any team holds more players than its quota, and an
\* acquisition for a role that is at its quota is refused and changes
\* nothing; for a valid request with a new name the refusal is QuotaExceeded.
C2_Quota ==
    /\ \A i \in Teams, r \in RuoliSet : Len(squadre[i].rosa[r]) <= QUOTE_ROSA[r]
    /\ \A i \in Teams, r \in RuoliSet :
          Len(squadre[i].rosa[r]) = QUOTE_ROSA[r] =>
             \A nome \in NomiInput, prezzo \in PrezziInput :
                /\ ~ENABLED (/\ AggiungiGiocatore(i, nome, r, prezzo)
                             /\ (esito' # "ko" \/ Lega' # Lega))
                /\ (Strip(nome) # <<>> /\ prezzo >= 0 /\ nome \notin elenco_giocatori_global)
                      => Controllo(squadre[i], nome, r, prezzo) = "QuotaExceeded"

\* a role at its quota after an acquisition for it was refused
C2_Witness ==
    \E i \in Teams :
        /\ Len(squadre[i].rosa["C"]) = QUOTE_ROSA["C"]
        /\ crediti_rimasti(squadre[i]) = squadre[i].budget
        /\ esito = "ko"

\* C3: with duplicates disallowed, a stored player name is in at most one
\* (team, role) slot of the league.
C3_NoDoppioni ==
    NoDoppioni => \A nome \in elenco_giocatori_global : Cardinality(SlotCon(nome)) <= 1

\* C4: every step leaves the old log as a prefix of the new one; the log
\* grows by one record exactly when a roster grows by one player, and by
\* none otherwise, so that a removal or a rename rewrites no record.
C4_LogAppendOnly ==
    [][\/ UNCHANGED <<squadre, storico>>
       \/ /\ Len(storico') >= Len(storico)
          /\ Len(storico') <= Len(storico) + 1
          /\ SubSeq(storico', 1, Len(storico)) = storico
          /\ (Len(storico') = Len(storico) + 1)
                <=> (NumGiocatori(squadre') = NumGiocatori(squadre) + 1)]_vars

\* a log that outlived a removal and a rename: it names a team under a name
\* no team bears any more, and holds more records than there are players
C4_Witness ==
    /\ Len(storico) = 2
    /\ storico[1].squadra \notin {squadre[i].nome : i \in Teams}
    /\ NumGiocatori(squadre) < Len(storico)

\* C5: a step that reports failure, a refused acquisition among them,
\* changes no roster, no log and no snapshot (hence no team's remaining
\* credits or remaining quotas, which are computed from the rosters); and
\* no step appends to a roster without appending to the log, or to the log
\* without a roster.
C5_RifiutoSenzaEffetti ==
    [][\/ UNCHANGED Lega
       \/ /\ esito' # "ko"
          /\ (NumGiocatori(squadre') > NumGiocatori(squadre))
                <=> (Len(storico') > Len(storico))]_vars

\* a refusal in a league that holds a player and a team out of credits
C5_Witness ==
    /\ esito = "ko"
    /\ Len(storico) = 1
    /\ \E i \in Teams : crediti_rimasti(squadre[i]) = 0

\* what a successful acquisition by team i does
EffettoAcquisto(i, nome, ruolo, prezzo) ==
    /\ squadre'[i].rosa[ruolo] =
          Append(squadre[i].rosa[ruolo],
                 [nome |-> Strip(nome), ruolo |-> ruolo, prezzo |-> prezzo])
    /\ storico' =
          Append(storico, [squadra |-> squadre[i].nome, giocatore |-> Strip(nome),
                           ruolo |-> ruolo, prezzo |-> prezzo])
    /\ crediti_rimasti(squadre'[i]) = crediti_rimasti(squadre[i]) - prezzo
    /\ quote_rimaste(squadre'[i])[ruolo] = quote_rimaste(squadre[i])[ruolo] - 1
    /\ \A r \in RuoliSet \ {ruolo} : squadre'[i].rosa[r] = squadre[i].rosa[r]
    /\ \A j \in Teams \ {i} : squadre'[j] = squadre[j]

\* C6: an acquisition that reports success appends one player (stripped
\* name, role, price) at the end of the team's list for the role and one
\* matching record to the log; the team's remaining credits drop by the
\* price, its remaining quota for the role by one; its other roles and the
\* other teams are untouched.
C6_EffettoAcquisto ==
    \A i \in Teams, nome \in NomiInput, ruolo \in RuoliSet, prezzo \in PrezziInput :
        ~ENABLED (/\ AggiungiGiocatore(i, nome, ruolo, prezzo)
                  /\ esito' = "ok"
                  /\ ~EffettoAcquisto(i, nome, ruolo, prezzo))

\* after the acquisition of a player typed with a leading blank
C6_Witness ==
    /\ esito = "ok"
    /\ Len(storico) = 2
    /\ storico[2].prezzo = 700
    /\ \E i \in Teams :
          /\ squadre[i].rosa["D"] # <<>>
          /\ squadre[i].rosa["D"][Len(squadre[i].rosa["D"])] =
                [nome |-> Smith, ruolo |-> "D", prezzo |-> 700]
          /\ storico[2].squadra = squadre[i].nome
    /\ storico[1].giocatore = Smith

\* C9: a rename to the team's current name, or to an empty or all-blank
\* name, changes nothing of the league.
C9_RinominaNoOp ==
    \A i \in Teams, nuovo_nome \in NomiSquadraTyped :
        (Strip(nuovo_nome) = <<>> \/ nuovo_nome = squadre[i].nome)
           => ~ENABLED (RinominaSquadra(i, nuovo_nome) /\ Lega' # Lega)

\* a league with a renamed team and a purchase on record
C9_Witness ==
    /\ squadre[1].nome = Nuovo
    /\ Len(storico) = 1
    /\ storico[1].squadra = Nuovo

\* C10: team names are pairwise distinct, and a rename to the name another
\* team bears is refused and changes no name.
C10_NomiUnici ==
    /\ \A i, j \in Teams : i # j => squadre[i].nome # squadre[j].nome
    /\ \A i \in Teams, nuovo_nome \in NomiSquadraTyped :
          nuovo_nome \in {squadre[j].nome : j \in Teams \ {i}}
             => ~ENABLED (/\ RinominaSquadra(i, nuovo_nome)
                          /\ (esito' # "ko" \/ Lega' # Lega))

\* a rename was refused while another team bears the new name
C10_Witness ==
    /\ squadre[2].nome = Nuovo
    /\ squadre[1].nome = NomeDefault(1)
    /\ esito = "ko"
    /\ storico = <<>>

-----------------------------------------------------------------------------
(* Properties of the spending targets, checked under SpecAsta *)

Completi(team) == {r \in RuoliSet : Len(team.rosa[r]) >= QUOTE_ROSA[r]}

Aperti(team) == RuoliSet \ Completi(team)

Abs(x) == IF x >= 0 THEN x ELSE -x

\* C7, as stated: the dynamic targets of every team sum to its budget
\* within 1, whatever the roster.
C7_SommaTargetSempre ==
    \A i \in Teams :
        Abs(SommaRuoli(target_per_ruolo_dynamic(squadre[i])) - squadre[i].budget) <= 1

\* C7, amended: while a team has an open role its dynamic targets sum to
\* its budget exactly; once all its roles are complete they sum to what
\* the team has spent.
C7_SommaTarget ==
    \A i \in Teams :
        SommaRuoli(target_per_ruolo_dynamic(squadre[i])) =
            IF Aperti(squadre[i]) = {}
              THEN squadre[i].budget - crediti_rimasti(squadre[i])
              ELSE squadre[i].budget

\* a team with all roles complete and credits left
C7_Witness ==
    \E i \in Teams :
        /\ Aperti(squadre[i]) = {}
        /\ crediti_rimasti(squadre[i]) > 1

\* the last open role in the order P, D, C, A
UltimoAperto(team) ==
    CHOOSE r \in Aperti(team) :
        \A k1, k2 \in 1..Len(RUOLI) :
            (RUOLI[k1] = r /\ RUOLI[k2] \in Aperti(team)) => k2 <= k1

\* C8: with a complete role and an open one, the targets of the open roles
\* sum to the pool (budget less the spend on complete roles); each open
\* role but the last gets the pool share of its fraction, rounded, the last
\* gets the rest; with only P complete at 50 the targets are 50, 144, 217,
\* 289.
C8_TargetAperti ==
    \A i \in Teams :
        LET team == squadre[i]
            t == target_per_ruolo_dynamic(team)
            spent == spesa_per_ruolo(team)
            pool == team.budget
                    - SommaRuoli([r \in RuoliSet |->
                          IF r \in Completi(team) THEN spent[r] ELSE 0])
            peso == SommaRuoli([r \in RuoliSet |->
                          IF r \in Aperti(team) THEN SpendingTargets[r] ELSE 0])
        IN  (Completi(team) # {} /\ Aperti(team) # {}) =>
              /\ SommaRuoli([r \in RuoliSet |-> IF r \in Aperti(team) THEN t[r] ELSE 0]) = pool
              /\ \A r \in Aperti(team) \ {UltimoAperto(team)} :
                    t[r] = RoundHalfEven(pool * SpendingTargets[r], peso)
              /\ (Completi(team) = {"P"} /\ spent["P"] = 50 /\ team.budget = 700)
                    => t = [P |-> 50, D |-> 144, C |-> 217, A |-> 289]

-----------------------------------------------------------------------------
(* Properties of removal, checked under Spec *)

\* the stored names of the players of team i in the role
NomiIn(i, ruolo) ==
    {squadre[i].rosa[ruolo][k].nome : k \in 1..Len(squadre[i].rosa[ruolo])}

\* C11: a removal of a name that the team does not hold in the role, be it
\* held in another role or by another team, reports not-found and changes
\* no roster, no log and no snapshot.
C11_RimozioneAssente ==
    \A i \in Teams, ruolo \in RuoliSet, nome \in NomiInput :
        nome \notin NomiIn(i, ruolo)
           => ~ENABLED (/\ RimuoviGiocatore(i, ruolo, nome)
                        /\ (esito' # "ko" \/ Lega' # Lega))

\* a refusal while a team holds Smith in one role and Jones in another,
\* and the other team holds nobody
C11_Witness ==
    /\ esito = "ko"
    /\ \E i \in Teams :
          /\ Smith \in NomiIn(i, "P")
          /\ Jones \in NomiIn(i, "D")
          /\ \A j \in Teams \ {i}, r \in RuoliSet : squadre[j].rosa[r] = <<>>

\* what a successful removal of nome from the role of team i does
EffettoRimozione(i, ruolo, nome) ==
    LET elenco == squadre[i].rosa[ruolo]
        dopo == squadre'[i].rosa[ruolo]
        k == CHOOSE n \in 1..Len(elenco) :
                /\ elenco[n].nome = nome
                /\ \A j \in 1..(n - 1) : elenco[j].nome # nome
    IN  /\ esito' = "ok"
        /\ Len(dopo) = Len(elenco) - 1
        /\ \A j \in 1..(k - 1) : dopo[j] = elenco[j]
        /\ \A j \in k..Len(dopo) : dopo[j] = elenco[j + 1]
        /\ \A r \in RuoliSet \ {ruolo} : squadre'[i].rosa[r] = squadre[i].rosa[r]
        /\ squadre'[i].nome = squadre[i].nome
        /\ squadre'[i].budget = squadre[i].budget
        /\ \A j \in Teams \ {i} : squadre'[j] = squadre[j]
        /\ storico' = storico
        /\ crediti_rimasti(squadre'[i]) = crediti_rimasti(squadre[i]) + elenco[k].prezzo
        /\ quote_rimaste(squadre'[i])[ruolo] = quote_rimaste(squadre[i])[ruolo] + 1

\* C15: a removal of a name the team holds in the role succeeds and takes
\* out one entry, the first of that exact name, the others keeping their
\* order; the team's other roles, the other teams and the log stay as they
\* were; the team's remaining credits rise by the price of the removed
\* player and its remaining quota for the role by one.
C15_EffettoRimozione ==
    \A i \in Teams, ruolo \in RuoliSet, nome \in NomiInput :
        nome \in NomiIn(i, ruolo)
           => ~ENABLED (/\ RimuoviGiocatore(i, ruolo, nome)
                        /\ ~EffettoRimozione(i, ruolo, nome))

\* a team bought Smith twice for role A, at 0 and then at 700, and is left
\* with the one bought at 700
C15_Witness ==
    /\ esito = "ok"
    /\ Len(storico) = 2
    /\ storico[1].prezzo = 0
    /\ storico[2].prezzo = 700
    /\ storico[1].giocatore = Smith
    /\ storico[2].giocatore = Smith
    /\ \E i \in Teams :
          /\ squadre[i].rosa["A"] = <<Giocatore(Smith, "A", 700)>>
          /\ storico[1].squadra = squadre[i].nome
          /\ storico[2].squadra = squadre[i].nome
    /\ NumGiocatori(squadre) = 1

-----------------------------------------------------------------------------
(* Properties of the snapshot, checked under Spec *)

\* C12: loading what save_state writes for the league gives back the teams
\* in the same order with the same names and budgets, for every role of
\* every team the same players (name, role, price) in the same order, and
\* the same purchase log.
C12_RoundTrip ==
    LET l == load_state(Payload(squadre, storico))
    IN  /\ Len(l.squadre) = Len(squadre)
        /\ \A i \in Teams :
              /\ l.squadre[i].nome = squadre[i].nome
              /\ l.squadre[i].budget = squadre[i].budget
              /\ \A r \in RuoliSet : l.squadre[i].rosa[r] = squadre[i].rosa[r]
        /\ l.storico = storico

\* a snapshot of a league with a renamed team, two players in one role and
\* two records in the log
C12_Witness ==
    /\ lega_state = Payload(squadre, storico)
    /\ Len(storico) = 2
    /\ \E i \in Teams :
          /\ Len(squadre[i].rosa["A"]) = 2
          /\ squadre[i].nome = Nuovo

-----------------------------------------------------------------------------
(* Properties of concurrent acquisitions, checked under SpecConcorrenti *)

\* C13: nothing is checked again between the checks and the append: the
\* append of a call that has passed its checks goes through and puts the
\* player in the team's role whatever the rosters hold by then.  Two calls
\* for one name on two teams that both pass the checks before either
\* appends therefore leave the name with both teams, duplicates being
\* disallowed.
C13_CheckThenAct ==
    \A c \in Chiamanti :
        in_corso[c] # <<>> =>
            LET ch == in_corso[c][1]
            IN  /\ ENABLED AppendiGiocatore(c)
                /\ ~ENABLED (/\ AppendiGiocatore(c)
                             /\ \/ esito' # "ok"
                                \/ Len(squadre'[ch.squadra].rosa[ch.ruolo]) =
                                      Len(squadre[ch.squadra].rosa[ch.ruolo]))

\* both teams hold Smith, with no call under way
C13_Witness ==
    /\ NoDoppioni
    /\ Avviate = {}
    /\ \E r1, r2 \in RuoliSet : Smith \in NomiIn(1, r1) /\ Smith \in NomiIn(2, r2)
    /\ Len(storico) = 2
    /\ storico[1].giocatore = Smith
    /\ storico[2].giocatore = Smith

-----------------------------------------------------------------------------
(* Properties of the order of the checks, checked under Spec *)

\* C14: the checks of an acquisition run in the order invalid input,
\* duplicate, quota, credits, and the first that fails names the refusal,
\* whatever the later ones would say: an invalid request is InvalidInput; a
\* valid one for a rostered name is DuplicatePlayer also when the role is
\* full and the credits too few; a valid one for a new name and a full role
\* is QuotaExceeded also when the credits are too few; only then are the
\* credits looked at; and the acquisition succeeds exactly when no check
\* fails.
C14_OrdineControlli ==
    \A i \in Teams, nome \in NomiInput, ruolo \in RuoliInput, prezzo \in PrezziInput :
        LET team == squadre[i]
            k == Controllo(team, nome, ruolo, prezzo)
            invalido == Strip(nome) = <<>> \/ ruolo \notin RuoliSet \/ prezzo < 0
            doppione == NoDoppioni /\ nome \in elenco_giocatori_global
            piena == ruolo \in RuoliSet /\ Len(team.rosa[ruolo]) >= QUOTE_ROSA[ruolo]
            pochi == crediti_rimasti(team) < prezzo
        IN  /\ invalido => k = "InvalidInput"
            /\ (~invalido /\ doppione) => k = "DuplicatePlayer"
            /\ (~invalido /\ ~doppione /\ piena) => k = "QuotaExceeded"
            /\ (~invalido /\ ~doppione /\ ~piena /\ pochi) => k = "InsufficientCredits"
            /\ (~invalido /\ ~doppione /\ ~piena /\ ~pochi) => k = "Acquired"
            /\ k # "Acquired" => ~ENABLED (/\ AggiungiGiocatore(i, nome, ruolo, prezzo)
                                           /\ esito' = "ok")

\* after a refusal, a team with Smith in its full role P and no credits
\* left: Smith again for P at 700 fails three checks, Jones two
C14_Witness ==
    /\ esito = "ko"
    /\ \E i \in Teams :
          /\ Smith \in NomiIn(i, "P")
          /\ Len(squadre[i].rosa["P"]) = QUOTE_ROSA["P"]
          /\ crediti_rimasti(squadre[i]) = 0
          /\ Controllo(squadre[i], Smith, "P", 700) = "DuplicatePlayer"
          /\ Controllo(squadre[i], Jones, "P", 700) = "QuotaExceeded"

-----------------------------------------------------------------------------
(* Properties of renames, checked under SpecNomi *)

\* C16: a rename trims the new name before comparing and storing it: a new
\* name that is the team's name with blanks around it changes nothing, a
\* new name whose trimmed form another team bears is refused and changes
\* nothing, and no stored team name begins or ends with a blank.
C16_RinominaTrim ==
    /\ \A i \in Teams : Strip(squadre[i].nome) = squadre[i].nome
    /\ \A i \in Teams, nuovo_nome \in NomiSquadraLiberi :
          /\ Strip(nuovo_nome) = squadre[i].nome
                => ~ENABLED (RinominaSquadra(i, nuovo_nome) /\ Lega' # Lega)
          /\ Strip(nuovo_nome) \in {squadre[j].nome : j \in Teams \ {i}}
                => ~ENABLED (/\ RinominaSquadra(i, nuovo_nome)
                             /\ (esito' # "ko" \/ Lega' # Lega))

-----------------------------------------------------------------------------
(* More properties of the spending targets *)

\* C17: for a team with a complete role, the dynamic target of every
\* complete role is what the team spent on it, the final correction
\* included; with all four roles complete the targets are the spend per
\* role, and they sum to what the team has spent.  Checked under SpecAsta.
C17_CompletiBloccati ==
    \A i \in Teams :
        LET team == squadre[i]
            t == target_per_ruolo_dynamic(team)
            spent == spesa_per_ruolo(team)
        IN  Completi(team) # {} =>
              /\ \A r \in Completi(team) : t[r] = spent[r]
              /\ Aperti(team) = {} =>
                    /\ \A r \in RuoliSet : t[r] = spent[r]
                    /\ SommaRuoli(t) = team.budget - crediti_rimasti(team)

\* a team with roles P and D complete, one player of the two of role A,
\* and a spend on P that is not its static target
C17_Witness ==
    \E i \in Teams :
        /\ Completi(squadre[i]) = {"P", "D"}
        /\ Len(squadre[i].rosa["A"]) = 1
        /\ spesa_per_ruolo(squadre[i])["P"] # target_per_ruolo(squadre[i])["P"]

\* C18: for a team with no complete role the dynamic targets are the
\* static ones, round(budget * fraction) per role, whatever the team has
\* spent; on a budget of 700 they are 70, 140, 210, 280.  Checked under
\* Spec.
C18_TargetStatici ==
    \A i \in Teams :
        LET team == squadre[i]
            t == target_per_ruolo_dynamic(team)
        IN  Completi(team) = {} =>
              /\ \A r \in RuoliSet :
                    t[r] = RoundHalfEven(team.budget * SpendingTargets[r], 100)
              /\ team.budget = 700 => t = [P |-> 70, D |-> 140, C |-> 210, A |-> 280]

\* a team that has spent its whole budget on one player and has no
\* complete role
C18_Witness ==
    \E i \in Teams :
        /\ Completi(squadre[i]) = {}
        /\ crediti_rimasti(squadre[i]) = 0
        /\ Len(squadre[i].rosa["A"]) = 1

\* C19: the targets stop no acquisition: a request with a valid name, role
\* and price, for a name no roster holds, a role below its quota and a
\* price within the remaining credits succeeds also when it takes the
\* team's spend on the role above the role's dynamic target.  Checked
\* under Spec.
C19_TargetNonVincolanti ==
    \A i \in Teams, nome \in NomiInput, ruolo \in RuoliSet, prezzo \in PrezziInput :
        LET team == squadre[i]
        IN  (/\ Strip(nome) # <<>>
             /\ prezzo >= 0
             /\ nome \notin elenco_giocatori_global
             /\ Len(team.rosa[ruolo]) < QUOTE_ROSA[ruolo]
             /\ prezzo <= crediti_rimasti(team)
             /\ spesa_per_ruolo(team)[ruolo] + prezzo > target_per_ruolo_dynamic(team)[ruolo])
            => ENABLED (/\ AggiungiGiocatore(i, nome, ruolo, prezzo)
                        /\ esito' = "ok"
                        /\ Len(squadre'[i].rosa[ruolo]) = Len(team.rosa[ruolo]) + 1)

\* a team has just bought for 700 a player of role A, whose target is 280
C19_Witness ==
    /\ esito = "ok"
    /\ \E i \in Teams :
          /\ Len(squadre[i].rosa["A"]) = 1
          /\ spesa_per_ruolo(squadre[i])["A"] = 700
          /\ target_per_ruolo_dynamic(squadre[i])["A"] = 280
          /\ storico[Len(storico)].prezzo = 700

\* C20: in every state the ledger operations reach, for a team with a
\* complete and an open role the pool, budget less the spend on complete
\* roles, is not negative, so that the clamp at 0 does nothing, and the
\* residual of the final correction is 0, so that the correction does
\* nothing; and every dynamic target of every team is a natural number.
\* Checked under SpecAsta.
C20_RamiDifensivi ==
    \A i \in Teams :
        LET team == squadre[i]
        IN  /\ (Completi(team) # {} /\ Aperti(team) # {}) =>
                  /\ remaining_pool_grezzo(team) >= 0
                  /\ diff(team) = 0
                  /\ target_per_ruolo_dynamic(team) = target_prima_della_correzione(team)
            /\ \A r \in RuoliSet : target_per_ruolo_dynamic(team)[r] \in Nat

\* a team whose pool is 0: its whole budget went on complete roles, and a
\* role is open
C20_Witness ==
    \E i \in Teams :
        /\ Completi(squadre[i]) # {}
        /\ Aperti(squadre[i]) # {}
        /\ remaining_pool_grezzo(squadre[i]) = 0

-----------------------------------------------------------------------------
(* Properties of the ledger over time, checked under Spec *)

\* the records of the log for the player nome
RecordDi(nome) == {k \in 1..Len(storico) : storico[k].giocatore = nome}

\* C21: the duplicate test reads the rosters and not the log: a name the
\* log has a record of and no roster holds (its player was removed) can be
\* acquired again by any team with the role below its quota and the price
\* within its credits, and the log then holds one record more for that
\* name than before.
C21_RiacquistoDopoRimozione ==
    \A i \in Teams, nome \in NomiInput, ruolo \in RuoliSet, prezzo \in PrezziInput :
        LET team == squadre[i]
        IN  (/\ Strip(nome) # <<>>
             /\ prezzo >= 0
             /\ RecordDi(Strip(nome)) # {}
             /\ SlotCon(Strip(nome)) = {}
             /\ Len(team.rosa[ruolo]) < QUOTE_ROSA[ruolo]
             /\ prezzo <= crediti_rimasti(team))
            => ENABLED (/\ AggiungiGiocatore(i, nome, ruolo, prezzo)
                        /\ esito' = "ok"
                        /\ Len(storico') = Len(storico) + 1
                        /\ storico'[Len(storico')].giocatore = Strip(nome)
                        /\ squadre'[i].rosa[ruolo] # team.rosa[ruolo])

\* Smith was bought by one team, removed, and bought by the other: two
\* records of the log name Smith and one roster holds Smith
C21_Witness ==
    /\ esito = "ok"
    /\ Cardinality(RecordDi(Smith)) = 2
    /\ storico[1].squadra # storico[2].squadra
    /\ Cardinality(SlotCon(Smith)) = 1
    /\ NumGiocatori(squadre) = 1

\* the names an acquisition may be asked with: typed ones and catalogue ones
NomiQualsiasi == NomiInput \cup UNION {Listone[r] : r \in RuoliSet}

\* the open slots of the team, all roles together
SlotAperti(team) == SommaRuoli(quote_rimaste(team))

\* C22: credits that have run out do not stop a roster from being
\* completed: in every state, for every team and every role of it below
\* its quota, an acquisition at price 0 of a name that is not blank and
\* that no roster holds succeeds; it leaves the team's credits as they
\* were and the team with one open slot less, so that repeating it with
\* unused names completes the roster.  Checked under SpecGratis.
C22_PrezzoZero ==
    \A i \in Teams, ruolo \in RuoliSet, nome \in NomiQualsiasi :
        LET team == squadre[i]
        IN  (/\ Strip(nome) # <<>>
             /\ nome \notin elenco_giocatori_global
             /\ Len(team.rosa[ruolo]) < QUOTE_ROSA[ruolo])
            => ENABLED (/\ AggiungiGiocatore(i, nome, ruolo, 0)
                        /\ esito' = "ok"
                        /\ crediti_rimasti(squadre'[i]) = crediti_rimasti(team)
                        /\ SlotAperti(squadre'[i]) = SlotAperti(team) - 1)

\* a team out of credits after its first purchase has completed its roster
\* with players at price 0
C22_Witness ==
    \E i \in Teams :
        /\ rosa_completa(squadre[i])
        /\ crediti_rimasti(squadre[i]) = 0
        /\ storico[1].prezzo = 700
        /\ storico[1].squadra = squadre[i].nome
        /\ \A k \in 2..Len(storico) : storico[k].prezzo = 0
        /\ esito = "ok"

=============================================================================
